---------------------------- MODULE Spec2Model ----------------------------
(***************************************************************************)
(* Model of app.py: the sales comparison script.                           *)
(*                                                                         *)
(* Amounts are exact rationals with the fixed denominator Den: the integer *)
(* u stands for the amount u/Den, so that fractional amounts (x.5 with     *)
(* Den = 2) and their rounding are part of the model.  After the rounding  *)
(* step of analyze_sales_data the amount columns hold whole numbers.       *)
(*                                                                         *)
(* Column names of the source and the field names used here:               *)
(*   顧客名 customer, 売上金額_前年 prev, 売上金額_今年 cur,               *)
(*   増減額 delta, 増減率 ratio, '新規/完全減少' the tag "NewOrLost",       *)
(*   得意先 "customer_col", 受注額 "amount_col",                           *)
(*   すべて表示 "all", 増加のみ "increase", 減少のみ "decrease",            *)
(*   計算不能 "NotComputable".                                             *)
(* The optional columns (担当者, 品名, 粗利益(B-L)) only add warnings and   *)
(* pass-through profit columns; they are left out.                         *)
(***************************************************************************)
EXTENDS Integers, Sequences, FiniteSets, TLC

VARIABLES
    raw,              \* SpecIngest: the table pd.read_excel returned
    ret,              \* SpecIngest: what process_excel_data returned
    last_year,        \* SpecAnalyze: first argument of analyze_sales_data
    this_year,        \* SpecAnalyze: second argument of analyze_sales_data
    result,           \* SpecAnalyze: what analyze_sales_data returned / raised
    last_year_file,   \* Spec: value of the first file_uploader
    this_year_file,   \* Spec: value of the second file_uploader
    session_state,    \* Spec: st.session_state
    selected_range,   \* Spec: value of the slider
    selected_change,  \* Spec: value of the selectbox
    search_term,      \* Spec: value of the text_input
    filtered_df,      \* Spec: the table handed to st.dataframe
    total_rate,       \* Spec: the fourth metric (総増減率)
    run               \* Spec: what the last script run did

vars == <<raw, ret, last_year, this_year, result, last_year_file,
          this_year_file, session_state, selected_range, selected_change,
          search_term, filtered_df, total_rate, run>>

ingestVars == <<raw, ret>>

analyzeVars == <<last_year, this_year, result>>

sessionVars == <<last_year_file, this_year_file, session_state,
                 selected_range, selected_change, search_term, filtered_df,
                 total_rate, run>>

---------------------------------------------------------------------------
(* Bounds *)

\* amounts are multiples of 1/Den
Den == 2

\* raw and aggregate amounts range over -MaxUnits..MaxUnits (in 1/Den)
MaxUnits == 2

\* an uploaded table has at most MaxRows records
MaxRows == 2

---------------------------------------------------------------------------
(* Customer names: strings, as sequences of characters *)

Customers == { <<"A", "b">>, <<"B">>, <<"a", ".", "c">> }

\* code point order of the characters in use
CharRank(ch) ==
    CASE ch = "." -> 1
      [] ch = "A" -> 2
      [] ch = "B" -> 3
      [] ch = "a" -> 4
      [] ch = "b" -> 5
      [] ch = "c" -> 6

\* s < t as Python strings
RECURSIVE StrLess(_, _)
StrLess(s, t) ==
    IF t = <<>> THEN FALSE
    ELSE IF s = <<>> THEN TRUE
    ELSE IF Head(s) # Head(t) THEN CharRank(Head(s)) < CharRank(Head(t))
    ELSE StrLess(Tail(s), Tail(t))

\* the elements of a set of strings in ascending order
RECURSIVE SortedKeys(_)
SortedKeys(S) ==
    IF S = {} THEN <<>>
    ELSE LET m == CHOOSE x \in S : \A y \in S \ {x} : StrLess(x, y)
         IN  <<m>> \o SortedKeys(S \ {m})

Units == (0 - MaxUnits)..MaxUnits

RECURSIVE SumSeq(_)
SumSeq(s) == IF s = <<>> THEN 0 ELSE Head(s) + SumSeq(Tail(s))

SeqsUpTo(S, n) == UNION { [1..k -> S] : k \in 0..n }

---------------------------------------------------------------------------
(* process_excel_data *)

required_columns == <<"customer_col", "amount_col">>

\* A cell of the 受注額 column as read_excel delivers it: a number, a text
\* that to_numeric can parse, a text it cannot, or a blank cell (NaN).
Cells ==
    [kind : {"num", "txt"}, v : Units]
        \cup { [kind |-> "bad", v |-> 0], [kind |-> "blank", v |-> 0] }

Records == [customer : Customers, amount : Cells]

\* The uploaded tables: the required columns that are present, and the
\* records (only a table with both columns has records the code reads).
RawTables ==
    { [columns |-> {"customer_col", "amount_col"}, rows |-> r] :
          r \in SeqsUpTo(Records, MaxRows) }
        \cup { [columns |-> c, rows |-> <<>>] :
                  c \in { {}, {"customer_col"}, {"amount_col"} } }

MissingFirstOnly(df) ==
    IF required_columns[1] \in df.columns THEN <<>>
    ELSE <<required_columns[1]>>

\* missing_columns = [col for col in required_columns if col not in df.columns]
MissingColumns(df) ==
    SelectSeq(required_columns, LAMBDA col : col \notin df.columns)

\* df['受注額'].dtype == 'object': the column holds at least one text cell
\* (a column of numbers and blanks is float64); a column without cells is
\* read as object.
IsObjectDtype(rows) ==
    \/ rows = <<>>
    \/ \E i \in 1..Len(rows) : rows[i].amount.kind \in {"txt", "bad"}

\* pd.to_numeric(..., errors='coerce') followed by dropna(subset=['受注額'])
CoerceAndDrop(rows) ==
    SelectSeq(rows, LAMBDA r : r.amount.kind \in {"num", "txt"})

\* df.groupby('得意先')['受注額'].sum(): one entry per customer of the
\* remaining records; NaN cells add nothing to the sum.
GroupBySum(rows) ==
    LET keys == { rows[i].customer : i \in 1..Len(rows) }
        val(r) == IF r.amount.kind \in {"num", "txt"} THEN r.amount.v ELSE 0
        of(c) == SelectSeq(rows, LAMBDA r : r.customer = c)
    IN  [c \in keys |-> SumSeq([i \in 1..Len(of(c)) |-> val(of(c)[i])])]

NoneReturned(missing) ==
    [isNone |-> TRUE, reported |-> missing, data |-> <<>>]

process_excel_data(df) ==
    LET missing == MissingColumns(df)
        kept == IF IsObjectDtype(df.rows) THEN CoerceAndDrop(df.rows)
                ELSE df.rows
    IN  IF missing # <<>> THEN NoneReturned(missing)
        ELSE [isNone |-> FALSE, reported |-> <<>>, data |-> GroupBySum(kept)]

NotRun == [isNone |-> TRUE, reported |-> <<"not run">>, data |-> <<>>]

---------------------------------------------------------------------------
(* analyze_sales_data *)

\* The per-customer tables process_excel_data can hand over: unique
\* customer keys, one amount each.
Aggregates == UNION { [S -> Units] : S \in SUBSET Customers }

\* A cell of the 増減率 column: the number n/d, numpy's inf, or the text
\* '新規/完全減少'.
Num(n, d) == [tag |-> "num", n |-> n, d |-> d]

Inf == [tag |-> "inf", n |-> 0, d |-> 1]

NewOrLost == [tag |-> "NewOrLost", n |-> 0, d |-> 1]

\* numpy's round: to the nearest integer, ties to the even one (d > 0)
RoundHalfEven(n, d) ==
    LET q == n \div d
        r == n - q * d
    IN  IF 2 * r < d THEN q
        ELSE IF 2 * r > d THEN q + 1
        ELSE IF q % 2 = 0 THEN q ELSE q + 1

\* .round(0).astype('int64') of an amount given in 1/Den
RoundAmount(u) == RoundHalfEven(u, Den)

\* .round(0).astype('int64') of a numeric 増減率 cell
RoundRatio(x) ==
    IF x.d > 0 THEN Num(RoundHalfEven(x.n, x.d), 1)
    ELSE Num(RoundHalfEven(0 - x.n, 0 - x.d), 1)

InnerJoin(last, this) ==
    LET keys == SortedKeys(DOMAIN last \cap DOMAIN this)
    IN  [i \in 1..Len(keys) |->
            [customer |-> keys[i], prev |-> last[keys[i]],
             cur |-> this[keys[i]]]]

\* pd.merge(..., on='顧客名', how='outer') and fillna(0): one row per key of
\* either table, keys in lexicographic order, a missing side filled with 0.
MergeOuter(last, this) ==
    LET keys == SortedKeys(DOMAIN last \cup DOMAIN this)
        at(t, c) == IF c \in DOMAIN t THEN t[c] ELSE 0
    IN  [i \in 1..Len(keys) |->
            [customer |-> keys[i], prev |-> at(last, keys[i]),
             cur |-> at(this, keys[i])]]

DeltaSwapped(row) == row.prev - row.cur

\* merged_df['増減額'] = merged_df['売上金額_今年'] - merged_df['売上金額_前年']
Delta(row) == row.cur - row.prev

RatioZeroForNoChange(prev, delta) ==
    IF prev # 0 THEN Num(100 * delta, prev)
    ELSE IF delta = 0 THEN Num(0, 1) ELSE Inf

\* np.where(prev != 0, (delta / prev) * 100, np.inf)
RatioWhere(prev, delta) ==
    IF prev # 0 THEN Num(100 * delta, prev) ELSE Inf

\* .replace([np.inf, -np.inf], '新規/完全減少')
ReplaceInf(x) == IF x.tag = "inf" THEN NewOrLost ELSE x

\* lines 108-118: the table with the 増減額 and 増減率 columns added
WithDeltaAndRatio(merged) ==
    [i \in 1..Len(merged) |->
        LET d == Delta(merged[i])
        IN  [customer |-> merged[i].customer, prev |-> merged[i].prev,
             cur |-> merged[i].cur, delta |-> d,
             ratio |-> ReplaceInf(RatioWhere(merged[i].prev, d))]]

\* The 増減率 column keeps dtype float64 unless a text was put into it.
RatioIsFloat(df) == \A i \in 1..Len(df) : df[i].ratio.tag # "NewOrLost"

\* lines 121-123: every float64/int64 column is rounded and cast; for the
\* 増減率 column the guard reads its first cell, which an empty table does
\* not have (IndexError).
RoundRaises(df) == RatioIsFloat(df) /\ Len(df) = 0

RoundColumns(df) ==
    [i \in 1..Len(df) |->
        [customer |-> df[i].customer,
         prev |-> RoundAmount(df[i].prev),
         cur |-> RoundAmount(df[i].cur),
         delta |-> RoundAmount(df[i].delta),
         ratio |-> IF RatioIsFloat(df) THEN RoundRatio(df[i].ratio)
                   ELSE df[i].ratio]]

Permutations1(n) ==
    { p \in [1..n -> 1..n] : \A i, j \in 1..n : i # j => p[i] # p[j] }

\* sort_values(by='売上金額_今年', ascending=False) with the default
\* kind='quicksort', which is not a stable sort: any order of the rows that
\* is non-increasing in 売上金額_今年 can come out.
SortOutcomes(df) ==
    { [i \in 1..Len(df) |-> df[p[i]]] : p \in
        { q \in Permutations1(Len(df)) :
            \A i \in 1..(Len(df) - 1) : df[q[i]].cur >= df[q[i + 1]].cur } }

\* What a call can do: raise (err) or return one of the sorted tables.
\* merged is merged_df after line 105.
AnalyzeOutcomes(last, this) ==
    LET merged == MergeOuter(last, this)
        df == WithDeltaAndRatio(merged)
    IN  IF RoundRaises(df)
        THEN { [err |-> "IndexError", rows |-> <<>>, merged |-> merged] }
        ELSE { [err |-> "", rows |-> s, merged |-> merged] :
                  s \in SortOutcomes(RoundColumns(df)) }

NotCalled == [err |-> "not called", rows |-> <<>>, merged |-> <<>>]

---------------------------------------------------------------------------
(* The values the session variables hold outside the session *)

NoFile == [columns |-> {"none"}, rows |-> <<>>]

NoTable == [isNone |-> TRUE, rows |-> <<>>]

Table(rows) == [isNone |-> FALSE, rows |-> rows]

NoMetric == [tag |-> "none", n |-> 0, d |-> 1]

InitialSessionState ==
    [last_year_data |-> NotRun, this_year_data |-> NotRun,
     analysis_done |-> FALSE, comparison_df |-> NoTable]

NoRun ==
    [uploaded |-> FALSE, last |-> NotRun, this |-> NotRun,
     analyzed |-> FALSE, raised |-> "", rendered |-> FALSE]

SessionIdle ==
    /\ last_year_file = NoFile
    /\ this_year_file = NoFile
    /\ session_state = InitialSessionState
    /\ selected_range = <<0, 0>>
    /\ selected_change = "all"
    /\ search_term = <<>>
    /\ filtered_df = NoTable
    /\ total_rate = NoMetric
    /\ run = NoRun

---------------------------------------------------------------------------
(* SpecIngest: process_excel_data applied to every uploaded table *)

InitIngest ==
    /\ raw \in RawTables
    /\ ret = NotRun
    /\ last_year = <<>> /\ this_year = <<>> /\ result = NotCalled
    /\ SessionIdle

ProcessExcel ==
    /\ ret = NotRun
    /\ ret' = process_excel_data(raw)
    /\ UNCHANGED <<raw, analyzeVars, sessionVars>>

NextIngest == ProcessExcel

SpecIngest == InitIngest /\ [][NextIngest]_vars

---------------------------------------------------------------------------
(* SpecAnalyze: analyze_sales_data applied to every pair of aggregates *)

InitAnalyze ==
    /\ last_year \in Aggregates
    /\ this_year \in Aggregates
    /\ result = NotCalled
    /\ raw = NoFile /\ ret = NotRun
    /\ SessionIdle

Analyze ==
    /\ result = NotCalled
    /\ result' \in AnalyzeOutcomes(last_year, this_year)
    /\ UNCHANGED <<last_year, this_year, ingestVars, sessionVars>>

NextAnalyze == Analyze

SpecAnalyze == InitAnalyze /\ [][NextAnalyze]_vars

---------------------------------------------------------------------------
(* The script: upload handling, filter pipeline, summary metrics *)

EitherIngested(l, t) == ~l.isNone \/ ~t.isNone

\* if last_year_data is not None and this_year_data is not None:
BothIngested(l, t) == ~l.isNone /\ ~t.isNone

RECURSIVE MinOf(_)
MinOf(s) ==
    IF Len(s) = 1 THEN s[1]
    ELSE IF s[1] <= MinOf(Tail(s)) THEN s[1] ELSE MinOf(Tail(s))

RECURSIVE MaxOf(_)
MaxOf(s) ==
    IF Len(s) = 1 THEN s[1]
    ELSE IF s[1] >= MaxOf(Tail(s)) THEN s[1] ELSE MaxOf(Tail(s))

\* the columns 売上金額_今年, 売上金額_前年 and 増減額 of a table
CurColumn(df) == [i \in 1..Len(df) |-> df[i].cur]

PrevColumn(df) == [i \in 1..Len(df) |-> df[i].prev]

DeltaColumn(df) == [i \in 1..Len(df) |-> df[i].delta]

\* min_amount, max_amount: the bounds and the default value of the slider
SliderBounds(df) == <<MinOf(CurColumn(df)), MaxOf(CurColumn(df))>>

\* (売上金額_今年 >= selected_range[0]) & (売上金額_今年 <= selected_range[1])
RangeFilter(df, range) ==
    SelectSeq(df, LAMBDA r : r.cur >= range[1] /\ r.cur <= range[2])

\* 増加のみ: 増減額 > 0; 減少のみ: 増減額 < 0; otherwise no condition
ChangeFilter(df, change) ==
    IF change = "increase" THEN SelectSeq(df, LAMBDA r : r.delta > 0)
    ELSE IF change = "decrease" THEN SelectSeq(df, LAMBDA r : r.delta < 0)
    ELSE df

\* str.lower() on the characters in use
Lower(ch) ==
    CASE ch = "A" -> "a"
      [] ch = "B" -> "b"
      [] OTHER -> ch

\* One pattern character against one character of the name, case=False.
\* str.contains takes the term as a regular expression (regex=True is the
\* default), where "." stands for any character.
PatternCharMatches(p, ch) == p = "." \/ Lower(p) = Lower(ch)

\* Series.str.contains(term, case=False, na=False) for one name: the
\* pattern matches at some position of the name.
StrContains(name, term) ==
    \E k \in 0..(Len(name) - Len(term)) :
        \A j \in 1..Len(term) : PatternCharMatches(term[j], name[k + j])

\* if search_term: filtered_df = filtered_df[...str.contains(...)]
SearchFilter(df, term) ==
    IF term = <<>> THEN df
    ELSE SelectSeq(df, LAMBDA r : StrContains(r.customer, term))

\* lines 172-188
FilterPipeline(df, range, change, term) ==
    SearchFilter(ChangeFilter(RangeFilter(df, range), change), term)

NotComputable == [tag |-> "NotComputable", n |-> 0, d |-> 1]

\* lines 207-212: the 総増減率 metric
TotalRate(df) ==
    LET prior_total == SumSeq(PrevColumn(df))
        total_change == SumSeq(DeltaColumn(df))
    IN  IF prior_total > 0 THEN Num(100 * total_change, prior_total)
        ELSE NotComputable

change_options == {"all", "increase", "decrease"}

\* the texts typed into the search box
SearchTerms == { <<>>, <<"B">>, <<".">>, <<"a", ".">> }

\* The files offered to the two uploaders: the tables lacking a required
\* column, the table without records, and the one-record tables of the
\* whole amounts -1 and 1.
SessionFiles ==
    { [columns |-> c, rows |-> <<>>] :
          c \in SUBSET {"customer_col", "amount_col"} }
        \cup
    { [columns |-> {"customer_col", "amount_col"},
       rows |-> << [customer |-> c, amount |-> [kind |-> "num", v |-> v]] >>] :
          c \in { <<"A", "b">>, <<"a", ".", "c">> }, v \in {0 - Den, Den} }

\* One run of the script with the given widget values.  range is the value
\* the slider would hold if its bounds are those of the previous run; a
\* slider created with other bounds starts at its default, the full range.
\* Widgets of the result section that a run does not reach lose their value.
RunScript(lf, tf, range, change, term) ==
    \E uploaded \in {lf # NoFile /\ tf # NoFile} :
    \E l \in {IF uploaded THEN process_excel_data(lf) ELSE NotRun} :
    \E t \in {IF uploaded THEN process_excel_data(tf) ELSE NotRun} :
    \E go \in {uploaded /\ BothIngested(l, t)} :
    \E out \in (IF go THEN AnalyzeOutcomes(l.data, t.data)
                ELSE {NotCalled}) :
    \E raised1 \in {go /\ out.err # ""} :
    \E ss \in { IF ~go THEN session_state
                ELSE IF raised1
                THEN [session_state EXCEPT !.last_year_data = l,
                                           !.this_year_data = t]
                ELSE [last_year_data |-> l, this_year_data |-> t,
                      analysis_done |-> TRUE,
                      comparison_df |-> Table(out.rows)] } :
    \E show \in {~raised1 /\ ss.analysis_done /\ ~ss.comparison_df.isNone} :
    \* int(nan) of the minimum of an empty column
    \E raised2 \in {show /\ ss.comparison_df.rows = <<>>} :
    \E rendered \in {show /\ ~raised2} :
        /\ last_year_file' = lf
        /\ this_year_file' = tf
        /\ session_state' = ss
        /\ run' = [uploaded |-> uploaded, last |-> l, this |-> t,
                   analyzed |-> go,
                   raised |-> IF raised1 THEN out.err
                              ELSE IF raised2 THEN "ValueError"
                              ELSE "",
                   rendered |-> rendered]
        /\ IF rendered
           THEN \E df \in {ss.comparison_df.rows} :
                \E bounds \in {SliderBounds(df)} :
                \E value \in
                    { IF /\ run.rendered
                         /\ SliderBounds(session_state.comparison_df.rows)
                               = bounds
                      THEN range ELSE bounds } :
                    /\ selected_range' = value
                    /\ selected_change' = change
                    /\ search_term' = term
                    /\ filtered_df' =
                          Table(FilterPipeline(df, value, change, term))
                    /\ total_rate' = TotalRate(df)
           ELSE /\ selected_range' = <<0, 0>>
                /\ selected_change' = "all"
                /\ search_term' = <<>>
                /\ filtered_df' = NoTable
                /\ total_rate' = NoMetric
        /\ UNCHANGED <<ingestVars, analyzeVars>>

Init ==
    /\ SessionIdle
    /\ raw = NoFile /\ ret = NotRun
    /\ last_year = <<>> /\ this_year = <<>> /\ result = NotCalled

\* the user puts a file into (or removes it from) the first uploader
UploadLastYear ==
    \E f \in SessionFiles \cup {NoFile} :
        /\ f # last_year_file
        /\ RunScript(f, this_year_file, selected_range, selected_change,
                     search_term)

\* the user puts a file into (or removes it from) the second uploader
UploadThisYear ==
    \E f \in SessionFiles \cup {NoFile} :
        /\ f # this_year_file
        /\ RunScript(last_year_file, f, selected_range, selected_change,
                     search_term)

\* the user moves the slider
MoveSlider ==
    /\ run.rendered
    /\ LET b == SliderBounds(session_state.comparison_df.rows)
       IN  \E lo \in b[1]..b[2] : \E hi \in lo..b[2] :
              RunScript(last_year_file, this_year_file, <<lo, hi>>,
                        selected_change, search_term)

\* the user picks an entry of the selectbox
SelectChange ==
    /\ run.rendered
    /\ \E c \in change_options :
          RunScript(last_year_file, this_year_file, selected_range, c,
                    search_term)

\* the user types a search term
EnterSearch ==
    /\ run.rendered
    /\ \E s \in SearchTerms :
          RunScript(last_year_file, this_year_file, selected_range,
                    selected_change, s)

Next ==
    \/ UploadLastYear
    \/ UploadThisYear
    \/ MoveSlider
    \/ SelectChange
    \/ EnterSearch

Spec == Init /\ [][Next]_vars

---------------------------------------------------------------------------
(* Properties of analyze_sales_data (SpecAnalyze) *)

Returned == result # NotCalled /\ result.err = ""

CustomersOf(df) == { df[i].customer : i \in 1..Len(df) }

\* the amount a table holds for a customer before the merge (0 if absent)
AmountIn(t, c) == IF c \in DOMAIN t THEN t[c] ELSE 0

OneRowPerCustomer(df) ==
    /\ CustomersOf(df) = DOMAIN last_year \cup DOMAIN this_year
    /\ Len(df) = Cardinality(DOMAIN last_year \cup DOMAIN this_year)

\* C1: the merged table, and the table analyze_sales_data returns, hold
\* exactly one row for every customer of last_year or this_year and no row
\* for anyone else.
C1_OuterJoinComplete ==
    /\ result # NotCalled => OneRowPerCustomer(result.merged)
    /\ Returned => OneRowPerCustomer(result.rows)

C1_Witness ==
    /\ Returned
    /\ DOMAIN last_year \ DOMAIN this_year # {}
    /\ DOMAIN this_year \ DOMAIN last_year # {}
    /\ DOMAIN last_year \cap DOMAIN this_year # {}
    /\ Len(result.rows) = 3

\* C2 (as amended): every returned row whose prior amount is 0 before the
\* rounding step (a customer absent from last_year included, a current
\* amount of 0 included) holds the text '新規/完全減少' in 増減率, never a
\* number.
C2_SentinelOnZeroBase ==
    Returned =>
        \A i \in 1..Len(result.rows) :
            AmountIn(last_year, result.rows[i].customer) = 0
                => result.rows[i].ratio = NewOrLost

C2_Witness ==
    /\ Returned
    /\ \E i \in 1..Len(result.rows) :
          /\ AmountIn(last_year, result.rows[i].customer) = 0
          /\ result.rows[i].cur = 0
          /\ result.rows[i].ratio = NewOrLost
    /\ \E i \in 1..Len(result.rows) :
          /\ AmountIn(last_year, result.rows[i].customer) # 0
          /\ result.rows[i].prev = 0
          /\ result.rows[i].ratio.tag = "num"

\* C2 (as claimed): every returned row whose 売上金額_前年 column is 0 holds
\* the text in 増減率.
C2_SentinelOnRoundedZero ==
    Returned =>
        \A i \in 1..Len(result.rows) :
            result.rows[i].prev = 0 => result.rows[i].ratio = NewOrLost

Abs(x) == IF x < 0 THEN 0 - x ELSE x

\* C3 (as amended): 増減額 is current minus prior taken before rounding; the
\* three columns are then rounded one by one, so a returned row satisfies
\* 増減額 = 売上金額_今年 - 売上金額_前年 whenever both amounts are whole
\* numbers, and is off by at most 1 otherwise.
C3_DeltaBeforeRounding ==
    Returned =>
        \A i \in 1..Len(result.rows) :
            LET r == result.rows[i]
                p == AmountIn(last_year, r.customer)
                c == AmountIn(this_year, r.customer)
            IN  /\ r.prev = RoundAmount(p)
                /\ r.cur = RoundAmount(c)
                /\ r.delta = RoundAmount(c - p)
                /\ (p % Den = 0 /\ c % Den = 0) => r.delta = r.cur - r.prev
                /\ Abs(r.delta - (r.cur - r.prev)) <= 1

C3_Witness ==
    /\ Returned
    /\ \E i \in 1..Len(result.rows) :
          /\ AmountIn(last_year, result.rows[i].customer) % Den = 0
          /\ AmountIn(this_year, result.rows[i].customer) % Den = 0
          /\ result.rows[i].prev > 0
          /\ result.rows[i].delta < 0
    /\ \E i \in 1..Len(result.rows) :
          /\ AmountIn(last_year, result.rows[i].customer) % Den # 0
          /\ Abs(result.rows[i].delta
                    - (result.rows[i].cur - result.rows[i].prev)) = 1

\* C3 (as claimed): in every returned row 増減額 equals 売上金額_今年 minus
\* 売上金額_前年.
C3_DeltaOnRoundedColumns ==
    Returned =>
        \A i \in 1..Len(result.rows) :
            result.rows[i].delta
                = result.rows[i].cur - result.rows[i].prev

PositionIn(df, c) == CHOOSE k \in 1..Len(df) : df[k].customer = c

\* C4: the returned table is non-increasing in 売上金額_今年 and rows with
\* equal 売上金額_今年 keep the order the merge gave them.
C4_SortedAndStable ==
    Returned =>
        \A i, j \in 1..Len(result.rows) :
            i < j =>
                /\ result.rows[i].cur >= result.rows[j].cur
                /\ result.rows[i].cur = result.rows[j].cur
                      => PositionIn(result.merged, result.rows[i].customer)
                           < PositionIn(result.merged,
                                        result.rows[j].customer)

\* C10: analyze_sales_data returns a table for every pair of aggregates, the
\* empty table for two empty ones.
C10_AnalyzeTotal == result # NotCalled => result.err = ""

---------------------------------------------------------------------------
(* Properties of process_excel_data (SpecIngest) *)

Coercible(r) == r.amount.kind \in {"num", "txt"}

\* C6: a customer is in the returned aggregate exactly if one of its records
\* has a numeric or coercible 受注額, and its 売上金額 is the sum over those
\* records.
C6_DropPolicy ==
    (ret # NotRun /\ ~ret.isNone) =>
        \A c \in Customers :
            LET good == SelectSeq(raw.rows,
                            LAMBDA r : r.customer = c /\ Coercible(r))
            IN  /\ c \in DOMAIN ret.data <=> good # <<>>
                /\ c \in DOMAIN ret.data =>
                      ret.data[c]
                          = SumSeq([i \in 1..Len(good) |-> good[i].amount.v])

---------------------------------------------------------------------------
(* Properties of the script (Spec) *)

\* what process_excel_data owes for a table lacking required columns
ReportsAbsent(file, r) ==
    LET absent == {"customer_col", "amount_col"} \ file.columns
    IN  absent # {} =>
            /\ r.isNone
            /\ { r.reported[i] : i \in 1..Len(r.reported) } = absent

C5_Step ==
    run'.uploaded =>
        /\ ReportsAbsent(last_year_file', run'.last)
        /\ ReportsAbsent(this_year_file', run'.this)
        /\ (run'.last.isNone \/ run'.this.isNone) =>
              /\ ~run'.analyzed
              /\ session_state' = session_state

\* C5: in a run with both files uploaded, a table lacking 得意先 and/or 受注額
\* gets every absent column reported and None returned; when either
\* ingestion returns None, analyze_sales_data is not called and the session
\* state is the one before the run.
C5_MissingFieldStops == [][C5_Step]_vars

C5_Witness ==
    /\ run.uploaded
    /\ run.last.isNone
    /\ Len(run.last.reported) = 2
    /\ ~run.this.isNone
    /\ ~run.analyzed
    /\ session_state.analysis_done

\* the search term as a literal, case-insensitive substring of the name
LiteralContains(name, term) ==
    \E k \in 0..(Len(name) - Len(term)) :
        \A j \in 1..Len(term) : Lower(term[j]) = Lower(name[k + j])

\* C7: the filtered view is the subsequence of comparison_df of the rows in
\* the selected range, with the selected sign of 増減額, whose name contains
\* the search term as a literal; full range, すべて表示 and no term give the
\* whole table.
C7_FilterConjunction ==
    run.rendered =>
        LET df == session_state.comparison_df.rows
            keep(r) ==
                /\ selected_range[1] <= r.cur /\ r.cur <= selected_range[2]
                /\ selected_change = "increase" => r.delta > 0
                /\ selected_change = "decrease" => r.delta < 0
                /\ search_term # <<>>
                      => LiteralContains(r.customer, search_term)
        IN  /\ filtered_df.rows = SelectSeq(df, keep)
            /\ ( /\ selected_range = SliderBounds(df)
                 /\ selected_change = "all"
                 /\ search_term = <<>> ) => filtered_df.rows = df

\* C8: the 総増減率 metric is the marker exactly if the prior total of the
\* whole comparison_df is 0, and totalDelta / priorTotal * 100 otherwise.
C8_SummaryRatio ==
    run.rendered =>
        LET df == session_state.comparison_df.rows
            priorTotal == SumSeq(PrevColumn(df))
            totalDelta == SumSeq(DeltaColumn(df))
        IN  /\ total_rate = NotComputable <=> priorTotal = 0
            /\ priorTotal # 0 => total_rate = Num(100 * totalDelta, priorTotal)

\* C9: whenever analysis_done is set, comparison_df is a table
\* analyze_sales_data returns for the last_year_data and this_year_data held.
C9_ResultMatchesTables ==
    session_state.analysis_done =>
        \E out \in AnalyzeOutcomes(session_state.last_year_data.data,
                                   session_state.this_year_data.data) :
            /\ out.err = ""
            /\ session_state.comparison_df = Table(out.rows)

=============================================================================
